---- MODULE Spec2Model ----
(***************************************************************************)
(* Model of the poker hand-history tracker in src/main.py.                 *)
(*                                                                         *)
(* Text is modelled as a sequence of atoms.  An atom is one character      *)
(* ("$", "1", ",", " ", "\n", ...) or one indivisible word of the log      *)
(* vocabulary ("Seat", "collected", "posts", "#Game No", a player name,    *)
(* a timestamp).  Python's  x in s  on strings is contiguous-subsequence   *)
(* search (Contains).  A float is the pair [mant, frac] standing for       *)
(* mant / 10^frac; the session builder works in hundredths.  A Python      *)
(* exception is a result record whose err field names the exception.       *)
(***************************************************************************)
EXTENDS Integers, Sequences, FiniteSets, TLC

VARIABLES
    pc,               \* which function of the pipeline has run
    string,           \* argument of extract_currency_amount
    currency_amount,  \* its result
    hand_history_raw, \* argument of convert_raw_hand_history
    hand_history,     \* its result, and the argument of extract_game_results
    hero_arg,         \* parameter hero of extract_game_results
    hero,             \* the module-level name hero (bound only under __main__)
    website,          \* parameter website of extract_game_results
    df_ind,           \* result of extract_game_results
    df,               \* argument of final_data_preprocessing
    ledger            \* its result

vars == <<pc, string, currency_amount, hand_history_raw, hand_history,
          hero_arg, hero, website, df_ind, df, ledger>>

\* ------------------------------------------------------------------ bounds
MaxLineLen == 5     \* atoms in a line given to extract_currency_amount
MaxRawLen == 9      \* lines of a raw log given to convert_raw_hand_history
MaxHands == 3       \* hand blocks given to extract_game_results
MaxRecords == 4     \* records given to final_data_preprocessing

\* ------------------------------------------------------------ Python values
NaN == [k |-> "nan"]                 \* np.nan
None == [k |-> "None"]
Float(x) == [k |-> "float", v |-> x]   \* in the session builder: x hundredths
IsFloat(x) == x.k = "float"
Unbound == [bound |-> FALSE]         \* a module-level name that was never assigned
Bound(name) == [bound |-> TRUE, name |-> name]
NotRun == [err |-> "not run"]

Ok(v) == [err |-> "none", val |-> v]
Raise(e) == [err |-> e]
IsOk(r) == r.err = "none"

\* An operator's arguments are evaluated where they are used, every time they
\* are used.  The({e : x \in {a}}) evaluates a once and binds x to its value,
\* as a Python call binds a parameter to the value of its argument.
The(S) == CHOOSE x \in S : TRUE

RECURSIVE Pow10(_)
Pow10(n) == IF n = 0 THEN 1 ELSE 10 * Pow10(n - 1)

\* pat in s, for strings
Contains(s0, pat0) ==
    \E s \in {s0}, pat \in {pat0} :
        \E i \in 0..(Len(s) - Len(pat)) : SubSeq(s, i + 1, i + Len(pat)) = pat

ContainsAny(s0, pats) == \E s \in {s0} : \E p \in pats : Contains(s, p)

\* ---------------------------------------------------- extract_currency_amount
Digits == {"0", "1", "2", "3", "5"}
DigitVal(c) == CASE c = "0" -> 0 [] c = "1" -> 1 [] c = "2" -> 2
                 [] c = "3" -> 3 [] c = "5" -> 5
\* the atoms "pound" and "euro" stand for the characters of the pound and the
\* euro sign
CurrencySymbols == {"pound", "$", "euro"}
Whitespace == {" ", "\n"}

CommaOrDigit == Digits \cup {","}

\* end of the longest run of atoms of class C that starts at i (i - 1 if none)
RunEnd(s0, i0, C) ==
    The({ CHOOSE j \in (i - 1)..Len(s) :
              /\ \A t \in i..j : s[t] \in C
              /\ j = Len(s) \/ s[j + 1] \notin C
          : s \in {s0}, i \in {i0} })

\* end of the match of  [pound $ euro]{1}[,\d]+.?\d*  starting at i, or 0 if none:
\* every part after [,\d]+ may be empty, so the greedy match never backtracks
MatchEnd(s0, i0) ==
    The({ IF i < Len(s) /\ s[i] \in CurrencySymbols /\ s[i + 1] \in CommaOrDigit
          THEN The({ RunEnd(s, (IF j < Len(s) /\ s[j + 1] # "\n" THEN j + 1 ELSE j) + 1, Digits)
                     : j \in {RunEnd(s, i + 1, CommaOrDigit)} })
          ELSE 0
          : s \in {s0}, i \in {i0} })

\* re.findall(currency_pattern, s): the non-overlapping matches, left to right
RECURSIVE FindAll(_, _)
FindAll(s0, i0) ==
    The({ IF i > Len(s) THEN <<>>
          ELSE IF e = 0 THEN FindAll(s, i + 1)
          ELSE <<SubSeq(s, i, e)>> \o FindAll(s, e + 1)
          : s \in {s0}, i \in {i0}, e \in {MatchEnd(s0, i0)} })

\* s.replace("$", "")
RemoveDollar(s) == SelectSeq(s, LAMBDA c : c # "$")

\* s.strip()
Strip(s0) ==
    The({ IF \A i \in 1..Len(s) : s[i] \in Whitespace THEN <<>>
          ELSE SubSeq(s,
                      CHOOSE i \in 1..Len(s) :
                          s[i] \notin Whitespace /\ \A j \in 1..(i - 1) : s[j] \in Whitespace,
                      CHOOSE i \in 1..Len(s) :
                          s[i] \notin Whitespace /\ \A j \in (i + 1)..Len(s) : s[j] \in Whitespace)
          : s \in {s0} })

\* the number written by a run of digits
RECURSIVE DigitsValue(_)
DigitsValue(s0) ==
    The({ IF s = <<>> THEN 0
          ELSE 10 * DigitsValue(SubSeq(s, 1, Len(s) - 1)) + DigitVal(s[Len(s)])
          : s \in {s0} })

\* float(s) for s over the atoms of the model: digits, then optionally a
\* point and digits; anything else is a ValueError
ParseFloat(s0) ==
    The({ IF i = 0 THEN Raise("ValueError")
          ELSE IF i = Len(s) THEN Ok([mant |-> DigitsValue(s), frac |-> 0])
          ELSE IF s[i + 1] = "." /\ RunEnd(s, i + 2, Digits) = Len(s)
               THEN Ok([mant |-> DigitsValue(SubSeq(s, 1, i) \o SubSeq(s, i + 2, Len(s))),
                        frac |-> Len(s) - i - 1])
          ELSE Raise("ValueError")
          : s \in {s0}, i \in {RunEnd(s0, 1, Digits)} })

extract_currency_amount(string0) ==
    The({ IF found = <<>> THEN Raise("IndexError")
          ELSE ParseFloat(Strip(RemoveDollar(found[Len(found)])))
          : found \in {FindAll(string0, 1)} })

\* ---------------------------------------------------- convert_raw_hand_history
Blank == <<"\n">>
HasStartMarker(v) == Contains(v, <<"#", "Game No">>) \/ Contains(v, <<"Hand ", "#">>)

\* l[i], 0-based as in the source
At(l, i) == l[i + 1]
\* l[a:b] for 0 <= a, 0 <= b <= len(l)
Slice(l, a, b) == SubSeq(l, a + 1, b)

\* start_of_hand while it still holds np.nan: no index of a line
NoStart == -1

\* the loop of convert_raw_hand_history from index i on: the (start, end)
\* pairs of the slices it appends, or the TypeError of slicing from nan
RECURSIVE SegmentLoop(_, _, _, _)
SegmentLoop(raw0, i0, start0, acc0) ==
    The({ IF i >= Len(raw) THEN Ok(acc)
          ELSE IF i >= Len(raw) - 2 THEN SegmentLoop(raw, i + 1, start_of_hand, acc)
          ELSE The({ IF At(raw, i) = Blank /\ At(raw, i + 1) = Blank /\ At(raw, i + 2) = Blank
                     THEN IF start = NoStart THEN Raise("TypeError")
                          ELSE SegmentLoop(raw, i + 1, start, Append(acc, <<start, i>>))
                     ELSE SegmentLoop(raw, i + 1, start, acc)
                     : start \in {IF HasStartMarker(At(raw, i)) THEN i ELSE start_of_hand} })
          : raw \in {raw0}, i \in {i0}, start_of_hand \in {start0}, acc \in {acc0} })

HandRanges(raw) == SegmentLoop(raw, 0, NoStart, <<>>)

convert_raw_hand_history(hand_history_raw0) ==
    The({ IF IsOk(r)
          THEN Ok([k \in 1..Len(r.val) |-> Slice(raw, r.val[k][1], r.val[k][2])])
          ELSE r
          : raw \in {hand_history_raw0}, r \in {HandRanges(hand_history_raw0)} })

\* ------------------------------------------------------------ field extractors
MinOf(S) == CHOOSE x \in S : \A y \in S : x <= y

\* s.split(sep) for a one-atom separator
RECURSIVE Split(_, _)
Split(s0, sep) ==
    The({ IF \A i \in 1..Len(s) : s[i] # sep THEN <<s>>
          ELSE The({ <<SubSeq(s, 1, i - 1)>> \o Split(SubSeq(s, i + 1, Len(s)), sep)
                     : i \in {MinOf({i \in 1..Len(s) : s[i] = sep})} })
          : s \in {s0} })

\* s.split()[0], for s holding a word
FirstWord(s0) ==
    The({ IF \E i \in 1..Len(t) : t[i] \in Whitespace
          THEN SubSeq(t, 1, MinOf({i \in 1..Len(t) : t[i] \in Whitespace}) - 1)
          ELSE t
          : t \in {Strip(s0)} })

\* s.replace("'", "")
RemoveQuote(s) == SelectSeq(s, LAMBDA c : c # "'")

\* the amount in hundredths of a float with at most two decimals, the only
\* amounts the hands of the model write
Hundredths(f) == f.mant * Pow10(2 - f.frac)

\* round(x, 2): amounts are whole hundredths, nan stays nan
Round2(x) == x

\* the lines of hand that hold name and word
LinesWith(hand, name, word) ==
    {k \in 1..Len(hand) : Contains(hand[k], name) /\ Contains(hand[k], word)}

extract_start_stack(hand0, hero0) ==
    The({ IF idx = {} THEN Ok(None)
          ELSE The({ IF IsOk(r) THEN Ok(Float(Hundredths(r.val))) ELSE r
                     : r \in {extract_currency_amount(hand[MinOf(idx)])} })
          : hand \in {hand0}, idx \in {LinesWith(hand0, hero0, <<"Seat">>)} })

\* substrings that match \d{2} \d{2} \d{4} \d{2}:\d{2}:\d{2}, in time order
Dates888 == <<"15 05 2020 21:40:28", "15 05 2020 21:41:30", "15 05 2020 21:43:02",
              "15 05 2020 21:44:51", "15 05 2020 21:46:17">>
\* substrings that match \d{4}/\d{2}/\d{2} \d{2}:\d{2}:\d{2}, in time order
DatesStars == <<"2020/05/15 21:40:28", "2020/05/15 21:41:30", "2020/05/15 21:43:02",
                "2020/05/15 21:44:51", "2020/05/15 21:46:17">>

\* re.search(pattern, s) then pd.Timestamp(...): the place in time order of the
\* first atom of s that matches
SearchDate(s0, dates) ==
    The({ IF found = {} THEN Raise("AttributeError")
          ELSE Ok(CHOOSE d \in 1..Len(dates) : s[MinOf(found)] = dates[d])
          : s \in {s0},
            found \in { {i \in 1..Len(s0) : \E d \in 1..Len(dates) : s0[i] = dates[d]} } })

NotSupported == "ValueError: website not supported"

extract_date(s, site) ==
    IF site = "888" THEN SearchDate(s, Dates888)
    ELSE IF site = "pokerstars" THEN SearchDate(s, DatesStars)
    ELSE Raise(NotSupported)

extract_table_name(string0) ==
    The({ IF \A i \in 1..Len(string_list) : string_list[i] # <<"Table">>
          THEN Raise("ValueError")
          ELSE The({ IF table_name_idx > Len(string_list) THEN Raise("IndexError")
                     ELSE Ok(RemoveQuote(string_list[table_name_idx]))
                     : table_name_idx \in
                         {MinOf({i \in 1..Len(string_list) : string_list[i] = <<"Table">>}) + 1} })
          : string_list \in {Split(string0, " ")} })

extract_game_id(s, site) ==
    IF site = "888"
    THEN The({ IF Len(parts) < 2 THEN Raise("IndexError") ELSE Ok(Strip(parts[2]))
               : parts \in {Split(s, ":")} })
    ELSE IF site = "pokerstars"
    THEN The({ IF Len(parts) < 2 THEN Raise("IndexError") ELSE Ok(parts[2])
               : parts \in {Split(Split(s, ":")[1], "#")} })
    ELSE Raise(NotSupported)

\* the list winners of extract_winners before set() removes the duplicates
RECURSIVE CollectedWords(_, _)
CollectedWords(hand0, k0) ==
    The({ IF k > Len(hand) THEN <<>>
          ELSE (IF Contains(SubSeq(hand[k], 2, Len(hand[k])), <<"collected">>)
                THEN <<FirstWord(hand[k])>> ELSE <<>>) \o CollectedWords(hand, k + 1)
          : hand \in {hand0}, k \in {k0} })

\* list(set(l)): l without its duplicates
RECURSIVE Unique(_)
Unique(l0) ==
    The({ IF l = <<>> THEN <<>>
          ELSE The({ IF \E i \in 1..Len(rest) : rest[i] = l[Len(l)] THEN rest
                     ELSE Append(rest, l[Len(l)])
                     : rest \in {Unique(SubSeq(l, 1, Len(l) - 1))} })
          : l \in {l0} })

InList(x, l) == \E i \in 1..Len(l) : l[i] = x

\* a plausible slip: the duplicates are kept
extract_winners_keeping_duplicates(hand) == CollectedWords(hand, 1)

\* sorted(list(set(winners))); the list is kept in the order of first mention,
\* its order is read nowhere (only membership and length are)
extract_winners(hand) == Unique(CollectedWords(hand, 1))

ActionVerbs == {<<"posts">>, <<"bets">>, <<"calls">>, <<"raises">>}

\* the loop of lines 99-103: win and invest after the lines from k on; every
\* test of a line begins by reading the module-level name hero
RECURSIVE SplitPotLoop(_, _, _, _)
SplitPotLoop(hand0, k0, win0, invest0) ==
    The({ IF k > Len(hand) THEN Ok([win |-> win, invest |-> invest])
          ELSE IF ~hero.bound THEN Raise("NameError")
          ELSE The({ IF ~(invests \/ collects) THEN SplitPotLoop(hand, k + 1, win, invest)
                     ELSE The({ IF ~IsOk(r) THEN r
                                ELSE SplitPotLoop(hand, k + 1,
                                        IF collects THEN Hundredths(r.val) ELSE win,
                                        IF invests THEN invest + Hundredths(r.val) ELSE invest)
                                : r \in {extract_currency_amount(hand[k])} })
                     : invests \in {Contains(hand[k], hero.name)
                                        /\ ContainsAny(hand[k], ActionVerbs)},
                       collects \in {Contains(hand[k], hero.name)
                                        /\ Contains(hand[k], <<"collected">>)} })
          : hand \in {hand0}, k \in {k0}, win \in {win0}, invest \in {invest0} })

extract_return_from_split_pot(hand) ==
    The({ IF IsOk(r) THEN Ok(Float(Round2(r.val.win - r.val.invest))) ELSE r
          : r \in {SplitPotLoop(hand, 1, 0, 0)} })

\* lines 109-111: the text before "collected" on the last line that holds it
WinnerOf(hand0) ==
    The({ IF lines = {} THEN <<"NA">>
          ELSE The({ Strip(SubSeq(elem, 1, MinOf({i \in 1..Len(elem) : elem[i] = "collected"}) - 1))
                     : elem \in {hand[CHOOSE k \in lines : \A j \in lines : j <= k]} })
          : hand \in {hand0},
            lines \in { {k \in 1..Len(hand0) : Contains(hand0[k], <<"collected">>)} } })

\* lines 112-114: the amount on the last line that holds winner and "Seat";
\* an earlier such line without an amount raises first
RECURSIVE WinnerStackLoop(_, _, _, _)
WinnerStackLoop(hand0, k0, winner0, stack0) ==
    The({ IF k > Len(hand) THEN Ok(start_stack_winner)
          ELSE IF Contains(hand[k], winner) /\ Contains(hand[k], <<"Seat">>)
          THEN The({ IF IsOk(r)
                     THEN WinnerStackLoop(hand, k + 1, winner, Float(Hundredths(r.val)))
                     ELSE r
                     : r \in {extract_currency_amount(hand[k])} })
          ELSE WinnerStackLoop(hand, k + 1, winner, start_stack_winner)
          : hand \in {hand0}, k \in {k0}, winner \in {winner0},
            start_stack_winner \in {stack0} })

\* lines 115-117
RECURSIVE InvestLoop(_, _, _)
InvestLoop(hand0, k0, invest0) ==
    The({ IF k > Len(hand) THEN Ok(invest)
          ELSE IF ~hero.bound THEN Raise("NameError")
          ELSE IF Contains(hand[k], hero.name) /\ ContainsAny(hand[k], ActionVerbs)
          THEN The({ IF IsOk(r) THEN InvestLoop(hand, k + 1, invest + Hundredths(r.val))
                     ELSE r
                     : r \in {extract_currency_amount(hand[k])} })
          ELSE InvestLoop(hand, k + 1, invest)
          : hand \in {hand0}, k \in {k0}, invest \in {invest0} })

\* Python's min(a, b) for a number a: b only if b < a, which nan never is
PyMin(a, b) == IF IsFloat(b) /\ b.v < a THEN b.v ELSE a

extract_return_from_losing_hand(hand0) ==
    The({ IF ~IsOk(stack) THEN stack
          ELSE The({ IF ~IsOk(invest) THEN invest
                     ELSE Ok(Float(Round2(0 - PyMin(invest.val, stack.val))))
                     : invest \in {InvestLoop(hand, 1, 0)} })
          : hand \in {hand0}, stack \in {WinnerStackLoop(hand0, 1, WinnerOf(hand0), NaN)} })

\* ---------------------------------------------------------- extract_game_results
SummaryLine == <<"*** SUMMARY ***", "\n">>

\* lines 158-164: the win of the i-th hand when the hero alone wins it (i counts
\* from 1, as enumerate(hand_history, start=1) does; hand_history[i + 1]
\* counts from 0)
WinOfSoleWinner(hh, i, hero_name, start_stack) ==
    The({ IF ~IsOk(next) THEN next
          ELSE IF next.val.k = "None" \/ start_stack.k = "None" THEN Raise("TypeError")
          ELSE IF next.val.k = "nan" THEN Ok(NaN)
          ELSE Ok(Float(next.val.v - start_stack.v))
          : next \in {IF i < Len(hh) - 1
                      THEN extract_start_stack(At(hh, i + 1), hero_name)
                      ELSE Ok(NaN)} })

\* lines 149, 153-167: result and win of the i-th hand
Classify(hh, i, hand0, hero_name, start_stack) ==
    The({ IF ~InList(hero_name, winners)
          THEN The({ IF IsOk(r) THEN Ok([result |-> "no win", win |-> r.val]) ELSE r
                     : r \in {extract_return_from_losing_hand(hand)} })
          ELSE IF Len(winners) = 1
          THEN The({ IF IsOk(r) THEN Ok([result |-> "win", win |-> r.val]) ELSE r
                     : r \in {WinOfSoleWinner(hh, i, hero_name, start_stack)} })
          ELSE IF Len(winners) > 1
          THEN The({ IF IsOk(r) THEN Ok([result |-> "split", win |-> r.val]) ELSE r
                     : r \in {extract_return_from_split_pot(hand)} })
          ELSE Ok([result |-> "NA", win |-> NaN])
          : hand \in {hand0}, winners \in {extract_winners(hand0)} })

\* lines 145-147: the hand without its summary
RemoveSummary(hand0, site) ==
    The({ IF site # "pokerstars" THEN Ok(hand)
          ELSE IF \A k \in 1..Len(hand) : hand[k] # SummaryLine THEN Raise("ValueError")
          ELSE Ok(SubSeq(hand, 1, MinOf({k \in 1..Len(hand) : hand[k] = SummaryLine}) - 1))
          : hand \in {hand0} })

\* lines 148-180: the dictionary appended for the i-th hand
HandDetails(hh, i, hero_name, site, table) ==
    The({ IF ~IsOk(cut) THEN cut
          ELSE IF (IF site = "888" THEN 2 ELSE 0) >= Len(cut.val) THEN Raise("IndexError")
          ELSE The({
              IF ~IsOk(date) THEN date
              ELSE IF ~IsOk(game_id) THEN game_id
              ELSE IF ~IsOk(start_stack) THEN start_stack
              ELSE The({ IF ~IsOk(outcome) THEN outcome
                         ELSE Ok([website |-> site, date |-> date.val, table |-> table,
                                  game_id |-> game_id.val, hand_number_table |-> i,
                                  start_stack |-> start_stack.val,
                                  result |-> outcome.val.result,
                                  win |-> Round2(outcome.val.win)])
                         : outcome \in {Classify(hh, i, hand, hero_name, start_stack.val)} })
              : hand \in {cut.val},
                date \in {extract_date(At(cut.val, IF site = "888" THEN 2 ELSE 0), site)},
                game_id \in {extract_game_id(At(cut.val, 0), site)},
                start_stack \in {extract_start_stack(cut.val, hero_name)} })
          : cut \in {RemoveSummary(hh[i], site)} })

RECURSIVE HandLoop(_, _, _, _, _, _)
HandLoop(hh, i0, hero_name, site, table, details0) ==
    The({ IF i > Len(hh) THEN Ok(hand_details)
          ELSE The({ IF IsOk(d) THEN HandLoop(hh, i + 1, hero_name, site, table,
                                              Append(hand_details, d.val))
                     ELSE d
                     : d \in {HandDetails(hh, i, hero_name, site, table)} })
          : i \in {i0}, hand_details \in {details0} })

extract_game_results(hand_history0, hero_name, site) ==
    The({ IF hh = <<>> \/ (IF site = "888" THEN 3 ELSE 1) >= Len(hh[1])
          THEN Raise("IndexError")
          ELSE The({ IF IsOk(table) THEN HandLoop(hh, 1, hero_name, site, table.val, <<>>)
                     ELSE table
                     : table \in {extract_table_name(At(hh[1], IF site = "888" THEN 3 ELSE 1))} })
          : hh \in {hand_history0} })

\* ------------------------------------------------------- final_data_preprocessing
\* the permutations p of 1..n that df.sort_values(by="date") may apply: the
\* default sort is not stable, so rows of equal date come in any order
SortOrders(rows) ==
    {p \in [1..Len(rows) -> 1..Len(rows)] :
        /\ \A i, j \in 1..Len(rows) : i # j => p[i] # p[j]
        /\ \A i, j \in 1..Len(rows) : i < j => rows[p[i]].date <= rows[p[j]].date}

\* Series.cumsum() at row i: pandas skips nan (skipna=True): the row of a nan
\* is nan, the rows after it carry the sum of the numbers on
RECURSIVE SumSkippingNaN(_, _)
SumSkippingNaN(rows, i) ==
    IF i = 0 THEN 0
    ELSE SumSkippingNaN(rows, i - 1) + (IF IsFloat(rows[i].win) THEN rows[i].win.v ELSE 0)

CumSum(rows, i) ==
    IF IsFloat(rows[i].win) THEN Float(SumSkippingNaN(rows, i)) ELSE NaN

final_data_preprocessing(rows, p) ==
    LET sorted == [i \in 1..Len(rows) |-> rows[p[i]]]
    IN  [i \in 1..Len(rows) |->
            [date |-> sorted[i].date, win |-> sorted[i].win,
             hand_number_table |-> sorted[i].hand_number_table,
             hand_number_total |-> i,
             win_cumulative |-> CumSum(sorted, i)]]

\* ------------------------------------------------------------------- the logs
\* Lines as the two sites write them (the docstrings of src/main.py show the
\* 888 ones).  Two players, a and b.
PlayerA == <<"a">>
PlayerB == <<"b">>
GameIds == <<"1361371071", "1361371072", "1361371073", "1361371074", "1361371075">>

SeatLine(fmt, seat, name, amount) ==
    IF fmt = "888"
    THEN <<"Seat", " ", seat, ":", " ">> \o name \o <<" ", "(", " ">> \o amount \o <<" ", ")", "\n">>
    ELSE <<"Seat", " ", seat, ":", " ">> \o name \o <<" ", "(">> \o amount
            \o <<" ", "in", " ", "chips", ")", "\n">>

ActionLine(fmt, name, verb, amount) ==
    IF fmt = "888"
    THEN name \o <<" ", verb, " ", "[">> \o amount \o <<"]", "\n">>
    ELSE name \o <<":", " ", verb, " ">> \o amount \o <<"\n">>

CollectedLine(fmt, name, amount) ==
    IF fmt = "888"
    THEN name \o <<" ", "collected", " ", "[", " ">> \o amount \o <<" ", "]", "\n">>
    ELSE name \o <<" ", "collected", " ">> \o amount \o <<" ", "from", " ", "pot", "\n">>

HeaderLines(fmt, k) ==
    IF fmt = "888"
    THEN << <<"#", "Game No", " ", ":", " ", GameIds[k], "\n">>,
            <<"*****", " ", "888poker", " ", "*****", "\n">>,
            <<"Blinds", " ", "-", " ", "***", " ", Dates888[k], "\n">>,
            <<"Table", " ", "Osaka", " ", "6", " ", "Max", "\n">> >>
    ELSE << <<"PokerStars", " ", "Hand ", "#", GameIds[k], ":", " ", "Holdem", " ", "-", " ",
              DatesStars[k], "\n">>,
            <<"Table", " ", "'", "Osaka", "'", " ", "6-max", " ", "Seat", " ", "#", "1", "\n">> >>

\* PokerStars repeats the outcome after the hand: a summary that names the
\* first collector again
FooterLines(fmt, collectors) ==
    IF fmt = "888" THEN <<>>
    ELSE <<SummaryLine>>
         \o (IF collectors = <<>> THEN <<>>
             ELSE << <<"Seat", " ", "1", ":", " ">> \o collectors[1]
                     \o <<" ", "collected", " ", "(", "$", "3", ")", "\n">> >>)

\* what varies from hand to hand: the stack a sits down with (<<>>: a is not
\* seated) and the players credited with the pot, in the order of the lines
HandShapes ==
    {[stack_a |-> <<"$", "2">>, collectors |-> <<PlayerA>>],
     [stack_a |-> <<"$", "3">>, collectors |-> <<PlayerA>>],
     [stack_a |-> <<>>,         collectors |-> <<PlayerA>>],
     [stack_a |-> <<"$", "3">>, collectors |-> <<PlayerB>>],
     [stack_a |-> <<"$", "2">>, collectors |-> <<PlayerA, PlayerB>>],
     [stack_a |-> <<"$", "3">>, collectors |-> <<PlayerB, PlayerA>>],
     [stack_a |-> <<"$", "2">>, collectors |-> <<PlayerA, PlayerA>>],
     [stack_a |-> <<"$", "2">>, collectors |-> <<>>]}

\* the k-th hand of a log: a invests 0.5 + 1, b invests 1 + 1.5, b sits with 1,
\* every collector collects 1.5
HandBlock(fmt, k, shape) ==
    HeaderLines(fmt, k)
    \o (IF shape.stack_a = <<>> THEN <<>> ELSE <<SeatLine(fmt, "1", PlayerA, shape.stack_a)>>)
    \o <<SeatLine(fmt, "2", PlayerB, <<"$", "1">>),
         ActionLine(fmt, PlayerA, "posts", <<"$", "0", ".", "5">>),
         ActionLine(fmt, PlayerB, "bets", <<"$", "1", ".", "0">>),
         ActionLine(fmt, PlayerA, "calls", <<"$", "1", ".", "0", "0">>),
         ActionLine(fmt, PlayerB, "raises", <<"$", "1", ".", "5">>)>>
    \o [c \in 1..Len(shape.collectors) |->
            CollectedLine(fmt, shape.collectors[c], <<"$", "1", ".", "5">>)]
    \o FooterLines(fmt, shape.collectors)

\* ------------------------------------------------------------------ the inputs
RECURSIVE SeqsUpTo(_, _)
SeqsUpTo(S, n) ==
    IF n = 0 THEN {<<>>}
    ELSE LET shorter == SeqsUpTo(S, n - 1)
         IN  shorter \cup {Append(q, x) : q \in {r \in shorter : Len(r) = n - 1}, x \in S}

LineAtoms == {"$", "euro", "1", "5", ",", ".", " ", "\n"}

RawLines == {<<"#", "Game No", " ", ":", " ", "1", "\n">>,
             <<"PokerStars", " ", "Hand ", "#", "1", ":", "\n">>,
             Blank,
             <<"a", " ", "folds", "\n">>}

Players == {PlayerA, PlayerB}

LedgerRows == [date : 1..3, win : {Float(-100), Float(50), NaN}, hand_number_table : {1}]

Idle == [err |-> "not used"]

\* ------------------------------------------------------ extract_currency_amount
InitCurrency ==
    /\ pc = "extract_currency_amount"
    /\ string \in SeqsUpTo(LineAtoms, MaxLineLen)
    /\ currency_amount = NotRun
    /\ hand_history_raw = Idle /\ hand_history = Idle /\ hero_arg = Idle /\ hero = Idle
    /\ website = Idle /\ df_ind = Idle /\ df = Idle /\ ledger = Idle

ExtractCurrencyAmount ==
    /\ pc = "extract_currency_amount"
    /\ currency_amount' = extract_currency_amount(string)
    /\ pc' = "done"
    /\ UNCHANGED <<string, hand_history_raw, hand_history, hero_arg, hero, website,
                   df_ind, df, ledger>>

SpecCurrency == InitCurrency /\ [][ExtractCurrencyAmount]_vars

\* ----------------------------------------------------- convert_raw_hand_history
InitSegmenter ==
    /\ pc = "convert_raw_hand_history"
    /\ hand_history_raw \in SeqsUpTo(RawLines, MaxRawLen)
    /\ hand_history = NotRun
    /\ string = Idle /\ currency_amount = Idle /\ hero_arg = Idle /\ hero = Idle
    /\ website = Idle /\ df_ind = Idle /\ df = Idle /\ ledger = Idle

ConvertRawHandHistory ==
    /\ pc = "convert_raw_hand_history"
    /\ hand_history' = convert_raw_hand_history(hand_history_raw)
    /\ pc' = "done"
    /\ UNCHANGED <<string, currency_amount, hand_history_raw, hero_arg, hero, website,
                   df_ind, df, ledger>>

SpecSegmenter == InitSegmenter /\ [][ConvertRawHandHistory]_vars

\* --------------------------------------------------------- extract_game_results
\* A log of one site, read with the tag of that site or with a tag the code
\* does not know.  hero is unbound when the module is imported; under __main__
\* it is bound (line 219) before main_loop runs.
InitSession ==
    /\ pc = "extract_game_results"
    /\ \E fmt \in {"888", "pokerstars"}, n \in 0..MaxHands :
          /\ \E shapes \in [1..n -> HandShapes] :
                hand_history = Ok([k \in 1..n |-> HandBlock(fmt, k, shapes[k])])
          /\ website \in {fmt, "partypoker"}
    /\ hero_arg \in Players
    /\ hero \in {Unbound} \cup {Bound(p) : p \in Players}
    /\ df_ind = NotRun
    /\ string = Idle /\ currency_amount = Idle /\ hand_history_raw = Idle
    /\ df = Idle /\ ledger = Idle

ExtractGameResults ==
    /\ pc = "extract_game_results"
    /\ df_ind' = extract_game_results(hand_history.val, hero_arg, website)
    /\ pc' = "done"
    /\ UNCHANGED <<string, currency_amount, hand_history_raw, hand_history, hero_arg,
                   hero, website, df, ledger>>

SpecSession == InitSession /\ [][ExtractGameResults]_vars

\* ----------------------------------------------------- final_data_preprocessing
InitLedger ==
    /\ pc = "final_data_preprocessing"
    /\ \E n \in 0..MaxRecords : \E rows \in [1..n -> LedgerRows] :
          df = [i \in 1..n |-> [rows[i] EXCEPT !.hand_number_table = i]]
    /\ ledger = NotRun
    /\ string = Idle /\ currency_amount = Idle /\ hand_history_raw = Idle
    /\ hand_history = Idle /\ hero_arg = Idle /\ hero = Idle /\ website = Idle
    /\ df_ind = Idle

FinalDataPreprocessing ==
    /\ pc = "final_data_preprocessing"
    /\ \E p \in SortOrders(df) : ledger' = Ok(final_data_preprocessing(df, p))
    /\ pc' = "done"
    /\ UNCHANGED <<string, currency_amount, hand_history_raw, hand_history, hero_arg,
                   hero, website, df_ind, df>>

SpecLedger == InitLedger /\ [][FinalDataPreprocessing]_vars

\* ------------------------------------------------------------------ the program
Init == InitCurrency \/ InitSegmenter \/ InitSession \/ InitLedger

Next ==
    \/ ExtractCurrencyAmount
    \/ ConvertRawHandHistory
    \/ ExtractGameResults
    \/ FinalDataPreprocessing

Spec == Init /\ [][Next]_vars

\* ======================================================================= claims

\* ---- C9: extract_currency_amount
\* a token as the claim describes it: a currency symbol, digits and commas, an
\* optional decimal point (and the digits after it)
ClaimTokenEnd(s, i) ==
    IF i < Len(s) /\ s[i] \in CurrencySymbols /\ s[i + 1] \in CommaOrDigit
    THEN LET j == RunEnd(s, i + 1, CommaOrDigit)
         IN  IF j < Len(s) /\ s[j + 1] = "." THEN RunEnd(s, j + 2, Digits) ELSE j
    ELSE 0

RECURSIVE ClaimTokens(_, _)
ClaimTokens(s, i) ==
    IF i > Len(s) THEN <<>>
    ELSE LET e == ClaimTokenEnd(s, i)
         IN  IF e = 0 THEN ClaimTokens(s, i + 1)
             ELSE <<SubSeq(s, i, e)>> \o ClaimTokens(s, e + 1)

\* equality of two floats
FloatEq(a, b) == a.mant * Pow10(b.frac) = b.mant * Pow10(a.frac)

\* the number a token writes, its symbol dropped and its commas ignored
ClaimTokenValue(token) == ParseFloat(SelectSeq(Tail(token), LAMBDA c : c # ","))

\* C9: for a line holding a currency-marked token, extract_currency_amount
\* returns the value of the last one, thousands separators ignored, whichever
\* of the three symbols marks it; for a line holding none it fails with the
\* no-amount-found error (the IndexError of [-1] on an empty list).
C9_LastTokenValue ==
    pc = "done" =>
        LET tokens == ClaimTokens(string, 1)
        IN  IF tokens = <<>> THEN currency_amount.err = "IndexError"
            ELSE LET v == ClaimTokenValue(tokens[Len(tokens)])
                 IN  IsOk(v) => IsOk(currency_amount) /\ FloatEq(currency_amount.val, v.val)

\* ---- C5, C6: convert_raw_hand_history
IsBlankRun(raw, i) == i + 2 <= Len(raw) /\ \A t \in i..(i + 2) : raw[t] = Blank
NoBlankRun(lines) == ~\E i \in 1..Len(lines) : IsBlankRun(lines, i)
StartsOf(raw) == {i \in 1..Len(raw) : HasStartMarker(raw[i])}
\* the last line of the hand that starts at line i: the line before the next
\* start marker, or the last line of the log
LastLineOf(raw, i) ==
    IF \E j \in StartsOf(raw) : j > i
    THEN MinOf({j \in StartsOf(raw) : j > i}) - 1
    ELSE Len(raw)
\* a start-marker line, lines without a blank run, three empty lines
CompleteHand(lines) ==
    /\ Len(lines) >= 4
    /\ IsBlankRun(lines, Len(lines) - 2)
    /\ NoBlankRun(SubSeq(lines, 2, Len(lines) - 3))
MadeOfHands(raw) ==
    \/ raw = <<>>
    \/ /\ 1 \in StartsOf(raw)
       /\ \A i \in StartsOf(raw) :
             LET lines == SubSeq(raw, i, LastLineOf(raw, i))
             IN  \/ CompleteHand(lines)
                 \/ LastLineOf(raw, i) = Len(raw) /\ NoBlankRun(lines)

RECURSIVE Ascending(_)
Ascending(S) == IF S = {} THEN <<>> ELSE <<MinOf(S)>> \o Ascending(S \ {MinOf(S)})

ClaimedBlocks(raw) ==
    LET starts == Ascending({i \in StartsOf(raw) :
                                CompleteHand(SubSeq(raw, i, LastLineOf(raw, i)))})
    IN  [k \in 1..Len(starts) |-> SubSeq(raw, starts[k], LastLineOf(raw, starts[k]) - 3)]

\* C5: a log made of n complete hands (a start-marker line, lines holding no
\* start marker and no run of three empty lines, then three empty lines) and
\* possibly an unterminated last hand yields exactly the n blocks, each from
\* its start marker up to its blank run, and no error.
C5_OneBlockPerCompleteHand ==
    pc = "done" /\ MadeOfHands(hand_history_raw) =>
        IsOk(hand_history) /\ hand_history.val = ClaimedBlocks(hand_history_raw)

\* C6: the blocks returned for any sequence of lines are line ranges of the
\* log that do not overlap, come in increasing line order, begin at a
\* start-marker line and hold no line of a run of three empty lines.
C6_BlocksDisjointAndOrdered ==
    pc = "done" /\ IsOk(hand_history) =>
        LET ranges == HandRanges(hand_history_raw).val
        IN  /\ Len(ranges) = Len(hand_history.val)
            /\ \A k \in 1..Len(ranges) :
                  /\ hand_history.val[k]
                        = Slice(hand_history_raw, ranges[k][1], ranges[k][2])
                  /\ HasStartMarker(At(hand_history_raw, ranges[k][1]))
                  /\ \A t \in (ranges[k][1] + 1)..ranges[k][2] :
                        ~\E i \in (t - 2)..t : i >= 1 /\ IsBlankRun(hand_history_raw, i)
            /\ \A k \in 1..(Len(ranges) - 1) : ranges[k][2] <= ranges[k + 1][1]

\* ---- C7: final_data_preprocessing
RECURSIVE SumOfWins(_, _)
SumOfWins(rows, i) == IF i = 0 THEN 0 ELSE SumOfWins(rows, i - 1) + rows[i].win.v

\* C7: the ledger is in ascending date order, hand_number_total of row i is i,
\* and win_cumulative of row i is the sum of the wins of rows 1..i, unknown
\* from the first row on whose win is missing.
C7_CumulativeSum ==
    pc = "done" =>
        LET rows == ledger.val
        IN  /\ Len(rows) = Len(df)
            /\ \A i \in 1..Len(rows) :
                  /\ i > 1 => rows[i - 1].date <= rows[i].date
                  /\ rows[i].hand_number_total = i
                  /\ rows[i].win_cumulative =
                        IF \E j \in 1..i : ~IsFloat(rows[j].win) THEN NaN
                        ELSE Float(SumOfWins(rows, i))

\* ---- C1, C2, C3, C4, C8, C10: extract_game_results
Produced == pc = "done" /\ IsOk(df_ind)
\* the lines of the k-th hand up to its summary
Played(k) ==
    LET hand == hand_history.val[k]
    IN  IF \E j \in 1..Len(hand) : hand[j] = SummaryLine
        THEN SubSeq(hand, 1, MinOf({j \in 1..Len(hand) : hand[j] = SummaryLine}) - 1)
        ELSE hand
\* the players a line of the hand credits with collecting
WinnerSet(hand) ==
    {FirstWord(hand[j]) : j \in {j \in 1..Len(hand) : Contains(hand[j], <<"collected">>)}}
AmountOn(line) == Hundredths(extract_currency_amount(line).val)
RECURSIVE SumOfAmounts(_, _)
SumOfAmounts(hand, lines) ==
    IF lines = {} THEN 0
    ELSE AmountOn(hand[MinOf(lines)]) + SumOfAmounts(hand, lines \ {MinOf(lines)})
\* the sum of the amounts on the lines that name the player and hold a verb
Invested(hand, name) ==
    SumOfAmounts(hand, {j \in 1..Len(hand) :
                            Contains(hand[j], name) /\ ContainsAny(hand[j], ActionVerbs)})
SeatLinesOf(hand, name) == LinesWith(hand, name, <<"Seat">>)
StackOf(hand, name) == AmountOn(hand[MinOf(SeatLinesOf(hand, name))])
CollectedBy(hand, name) == AmountOn(hand[MinOf(LinesWith(hand, name, <<"collected">>))])
Smaller(a, b) == IF a < b THEN a ELSE b

\* C1: a hand the hero alone wins has the hero's next starting stack minus
\* this one as its win, at the last place of the log a missing win; no other
\* hand has a missing win.
C1_WinIsNextStackMinusThis ==
    Produced =>
        LET rows == df_ind.val
        IN  \A k \in 1..Len(rows) :
               /\ rows[k].result = "win" /\ k < Len(rows) /\ IsFloat(rows[k + 1].start_stack)
                    => rows[k].win = Float(rows[k + 1].start_stack.v - rows[k].start_stack.v)
               /\ rows[k].result = "win" /\ k = Len(rows) => rows[k].win = NaN
               /\ rows[k].win = NaN => rows[k].result = "win" /\ k = Len(rows)

\* C2: a hand the hero given to extract_game_results does not win is a
\* "no win" whose win is minus the smaller of what that hero invested and the
\* winner's starting stack.
C2_LossIsCappedInvestment ==
    Produced =>
        \A k \in 1..Len(df_ind.val) :
            LET hand == Played(k)
                W == WinnerSet(hand)
            IN  hero_arg \notin W =>
                  /\ df_ind.val[k].result = "no win"
                  /\ \A w \in W :
                        W = {w} /\ SeatLinesOf(hand, w) # {} =>
                            df_ind.val[k].win
                                = Float(0 - Smaller(Invested(hand, hero_arg), StackOf(hand, w)))

\* C3: a "no win" hand whose winner's starting stack cannot be determined (no
\* line credits a collector, or no seat line names the winner) has a missing
\* win.
C3_UnknownWinnerStackIsMissing ==
    Produced =>
        \A k \in 1..Len(df_ind.val) :
            LET hand == Played(k)
                W == WinnerSet(hand)
            IN  /\ df_ind.val[k].result = "no win"
                /\ W = {} \/ \E w \in W : SeatLinesOf(hand, w) = {}
                => df_ind.val[k].win = NaN

\* C4: every record carries exactly one of the three categories, decided by
\* the set W of the players its hand credits with collecting: "no win" iff
\* the hero is not in W, "win" iff W = {hero}, "split" iff the hero is in W
\* with others; "NA" is never recorded, and the order of the collectors'
\* lines does not matter (W is a set).
C4_CategoryBySetOfWinners ==
    Produced =>
        \A k \in 1..Len(df_ind.val) :
            LET W == WinnerSet(Played(k))
                result == df_ind.val[k].result
            IN  /\ result \in {"no win", "win", "split"}
                /\ result = "no win" <=> hero_arg \notin W
                /\ result = "win" <=> W = {hero_arg}
                /\ result = "split" <=> hero_arg \in W /\ Cardinality(W) > 1

\* a log of three hands all recorded: a split between both players, a hand
\* the hero did not win, and a win whose winner is credited twice
C4_Witness ==
    /\ Produced
    /\ \E i, j, k \in 1..Len(df_ind.val) :
          /\ df_ind.val[i].result = "split"
          /\ WinnerSet(Played(i)) = {PlayerA, PlayerB}
          /\ df_ind.val[j].result = "no win"
          /\ hero_arg \notin WinnerSet(Played(j))
          /\ df_ind.val[k].result = "win"
          /\ CollectedWords(Played(k), 1) = <<hero_arg, hero_arg>>

\* C8: with a tag that is neither of the two supported ones the failure is
\* the unknown-dialect error, whatever the hands (none included), and no
\* other failure comes first.
C8_UnknownDialectFirst ==
    pc = "done" /\ website \notin {"888", "pokerstars"} => df_ind.err = NotSupported

\* C10: a hand the hero given to extract_game_results wins with others is a
\* "split" whose win is what that hero collected minus what that hero
\* invested, whatever the module-level name hero is bound to.
C10_SplitIsCollectedMinusInvested ==
    Produced =>
        \A k \in 1..Len(df_ind.val) :
            LET hand == Played(k)
                W == WinnerSet(hand)
            IN  hero_arg \in W /\ Cardinality(W) > 1 =>
                  /\ df_ind.val[k].result = "split"
                  /\ df_ind.val[k].win
                        = Float(CollectedBy(hand, hero_arg) - Invested(hand, hero_arg))

====
